---- MODULE Spec2Model ----
(***************************************************************************)
(* Model of findLongestSubStringThatContainsTwoCharacters (src/test.py).   *)
(* A string is a sequence of symbols; Python's 0-based index k is element  *)
(* k+1 of the sequence.  The nested scan is modelled one loop step at a    *)
(* time: the two range iterators, the loop body and the return.            *)
(***************************************************************************)
EXTENDS Integers, Sequences, FiniteSets, TLC

VARIABLES string, c1, c2, longest, i, j, iIt, jIt, pc, result, examined, memo,
          sweep, differs

vars == <<string, c1, c2, longest, i, j, iIt, jIt, pc, result, examined, memo,
          sweep, differs>>

(* ---------------------------------------------------------------- bounds *)
MaxLen == 4
MaxLenPure == 2
MaxLenSweep == 3

AlphabetSeq == <<"a", "b", "c">>
Alphabet == {AlphabetSeq[k] : k \in 1 .. Len(AlphabetSeq)}

Strings(n) == UNION {[1..k -> Alphabet] : k \in 0..n}

Unbound == -1
NoResult == <<"none">>

\* what a caller remembers of an earlier invocation: its arguments, its
\* result, and whether an invocation on other arguments was started since
NoMemo ==
  [set |-> FALSE, string |-> <<>>, c1 |-> "a", c2 |-> "a",
   result |-> <<>>, others |-> FALSE]

(* ------------------------------------------------ Python string primitives *)
Min(x, y) == IF x < y THEN x ELSE y
Max(x, y) == IF x > y THEN x ELSE y

\* S[k] raises IndexError unless -len(S) <= k < len(S)
Raises(S, k) == k >= Len(S) \/ k < -Len(S)

\* S[k] for an index that does not raise (negative k counts from the end)
At(S, k) == IF k >= 0 THEN S[k + 1] ELSE S[Len(S) + k + 1]

\* S[lo:hi]: both ends are normalised and clamped to 0..len(S), never raises
SliceEnd(S, k) == IF k < 0 THEN Max(Len(S) + k, 0) ELSE Min(k, Len(S))
Slice(S, lo, hi) == SubSeq(S, SliceEnd(S, lo) + 1, SliceEnd(S, hi))

(* ----------------------------------------------------------- the two loops *)
\* variant: the outer loop starts at index 1
OuterRangeSkipFirst(S) == [lo |-> 1, hi |-> Len(S)]

\* range(len(string)): first value and exclusive end
OuterRange(S) == [lo |-> 0, hi |-> Len(S)]

\* variant: the inner loop stops one index early
InnerRangeShort(S, a) == [lo |-> a + 1, hi |-> Len(S) - 1]

\* variant: the inner loop starts at i instead of i+1
InnerRangeFromI(S, a) == [lo |-> a, hi |-> Len(S)]

\* variant: the inner loop runs one index past the end
InnerRangePastEnd(S, a) == [lo |-> a + 1, hi |-> Len(S) + 1]

\* range(i+1, len(string))
InnerRange(S, a) == [lo |-> a + 1, hi |-> Len(S)]

\* variant: `or` in place of `and`
MatchesOr(S, m1, m2, a, b) == At(S, a) = m1 \/ At(S, b) = m2

\* variant: the two markers exchanged
MatchesSwapped(S, m1, m2, a, b) == At(S, a) = m2 /\ At(S, b) = m1

\* the condition of the outer if: string[i] == c1 and string[j] == c2
\* (evaluated only when neither read raises)
Matches(S, m1, m2, a, b) == At(S, a) = m1 /\ At(S, b) = m2

\* variant: the slice string[i:j] leaves out the end marker
RetainExclusiveEnd(best, S, a, b) ==
  IF Len(Slice(S, a, b)) > Len(best) THEN Slice(S, a, b) ELSE best

\* variant: the length comparison is missing, the last valid span wins
RetainLast(best, S, a, b) == Slice(S, a, b + 1)

\* the inner if and its assignment: the new value of longest
Retain(best, S, a, b) ==
  IF Len(Slice(S, a, b + 1)) > Len(best) THEN Slice(S, a, b + 1) ELSE best

\* the loop body, lines 5-7, as a function of longest
Body(best, S, m1, m2, a, b) ==
  IF Matches(S, m1, m2, a, b) THEN Retain(best, S, a, b) ELSE best

\* the reads the loop body performs: string[i], then string[j] only when
\* string[i] == c1 (the `and` short-circuits)
BodyRaises(S, m1, a, b) ==
  \/ Raises(S, a)
  \/ (~Raises(S, a) /\ At(S, a) = m1 /\ Raises(S, b))

(* --------------------------------------------- the one-pass alternative *)
\* Remember the first index of the start marker seen so far; for each later
\* end marker take the span from that index and keep the longest.
RECURSIVE OnePassFrom(_, _, _, _, _, _)
OnePassFrom(S, m1, m2, k, first, best) ==
  IF k >= Len(S)
    THEN best
    ELSE LET cand  == IF first # Unbound /\ S[k + 1] = m2
                        THEN SubSeq(S, first + 1, k + 1)
                        ELSE <<>>
             best2 == IF Len(cand) > Len(best) THEN cand ELSE best
             first2 == IF first = Unbound /\ S[k + 1] = m1 THEN k ELSE first
         IN  OnePassFrom(S, m1, m2, k + 1, first2, best2)

OnePass(S, m1, m2) == OnePassFrom(S, m1, m2, 0, Unbound, <<>>)

(* ------------------------------------------------------------------ state *)
\* the frame of a fresh invocation after line 2 (longest = "")
Frame(S, m1, m2) ==
  /\ string = S /\ c1 = m1 /\ c2 = m2
  /\ longest = <<>>
  /\ i = Unbound /\ j = Unbound
  /\ iIt = OuterRange(S).lo /\ jIt = Unbound
  /\ pc = "outer"
  /\ result = NoResult
  /\ examined = <<>>

InitWith(n) ==
  /\ \E S \in Strings(n), m1 \in Alphabet, m2 \in Alphabet : Frame(S, m1, m2)
  /\ memo = NoMemo
  /\ sweep = Unbound
  /\ differs = FALSE

Init == InitWith(MaxLen)
InitPure == InitWith(MaxLenPure)

\* variant: the accumulator outlives the invocation (longest is not reset)
CallWithCarry(n) ==
  /\ pc = "done"
  /\ \E S \in Strings(n), m1 \in Alphabet, m2 \in Alphabet :
       /\ string' = S /\ c1' = m1 /\ c2' = m2
  /\ longest' = longest
  /\ i' = Unbound /\ j' = Unbound
  /\ iIt' = OuterRange(string').lo /\ jIt' = Unbound
  /\ pc' = "outer"
  /\ result' = NoResult
  /\ examined' = <<>>
  /\ memo' = IF memo.set /\ <<string', c1', c2'>> # <<memo.string, memo.c1, memo.c2>>
              THEN [memo EXCEPT !.others = TRUE]
              ELSE memo
  /\ UNCHANGED <<sweep, differs>>

\* a further invocation: new arguments, a new frame, longest = ""
CallWith(n) ==
  /\ pc = "done"
  /\ \E S \in Strings(n), m1 \in Alphabet, m2 \in Alphabet :
       /\ string' = S /\ c1' = m1 /\ c2' = m2
  /\ longest' = <<>>
  /\ i' = Unbound /\ j' = Unbound
  /\ iIt' = OuterRange(string').lo /\ jIt' = Unbound
  /\ pc' = "outer"
  /\ result' = NoResult
  /\ examined' = <<>>
  /\ memo' = IF memo.set /\ <<string', c1', c2'>> # <<memo.string, memo.c1, memo.c2>>
              THEN [memo EXCEPT !.others = TRUE]
              ELSE memo
  /\ UNCHANGED <<sweep, differs>>

Call == CallWith(MaxLen)
CallPure == CallWith(MaxLenPure)

\* line 3: for i in range(len(string))
OuterNext ==
  /\ pc = "outer"
  /\ IF iIt < OuterRange(string).hi
       THEN /\ i' = iIt
            /\ iIt' = iIt + 1
            /\ jIt' = InnerRange(string, iIt).lo
            /\ pc' = "inner"
       ELSE /\ pc' = "return"
            /\ UNCHANGED <<i, iIt, jIt>>
  /\ UNCHANGED <<string, c1, c2, longest, j, result, examined, memo, sweep, differs>>

\* line 4: for j in range(i+1, len(string))
InnerNext ==
  /\ pc = "inner"
  /\ IF jIt < InnerRange(string, i).hi
       THEN /\ j' = jIt
            /\ jIt' = jIt + 1
            /\ pc' = "test"
       ELSE /\ pc' = "outer"
            /\ UNCHANGED <<j, jIt>>
  /\ UNCHANGED <<string, c1, c2, longest, i, iIt, result, examined, memo, sweep, differs>>

\* lines 5-7: the loop body for the current pair (i, j)
Examine ==
  /\ pc = "test"
  /\ examined' = Append(examined, <<i, j>>)
  /\ IF BodyRaises(string, c1, i, j)
       THEN /\ pc' = "error"
            /\ UNCHANGED longest
       ELSE /\ pc' = "inner"
            /\ longest' = Body(longest, string, c1, c2, i, j)
  /\ UNCHANGED <<string, c1, c2, i, j, iIt, jIt, result, memo, sweep, differs>>

\* line 8: return longest (differs records, for the caller, whether any
\* result so far was not the one-pass result)
Return ==
  /\ pc = "return"
  /\ result' = longest
  /\ pc' = "done"
  /\ differs' = (differs \/ longest # OnePass(string, c1, c2))
  /\ UNCHANGED <<string, c1, c2, longest, i, j, iIt, jIt, examined, memo, sweep>>

\* a caller keeps the arguments and the result of a finished invocation
Remember ==
  /\ pc = "done"
  /\ memo' = [set |-> TRUE, string |-> string, c1 |-> c1, c2 |-> c2,
              result |-> result, others |-> FALSE]
  /\ memo' # memo
  /\ UNCHANGED <<string, c1, c2, longest, i, j, iIt, jIt, pc, result, examined,
                 sweep, differs>>

Step == OuterNext \/ InnerNext \/ Examine \/ Return

Next == Call \/ OuterNext \/ InnerNext \/ Examine \/ Return

Spec == Init /\ [][Next]_vars

SpecLive == Init /\ [][Next]_vars /\ WF_vars(Step)

(* ---------------------------------------- a sweep over all bounded inputs *)
RECURSIVE Pow(_, _)
Pow(b, e) == IF e = 0 THEN 1 ELSE b * Pow(b, e - 1)

NumSymbols == Len(AlphabetSeq)

\* the number of argument triples with a string of length at most n
NumInputs(n) ==
  LET RECURSIVE Count(_)
      Count(k) == IF k < 0 THEN 0 ELSE Pow(NumSymbols, k) + Count(k - 1)
  IN  NumSymbols * NumSymbols * Count(n)

\* the string of length len whose symbols are the base-NumSymbols digits of code
StringOf(len, code) ==
  [k \in 1 .. len |-> AlphabetSeq[((code \div Pow(NumSymbols, k - 1)) % NumSymbols) + 1]]

RECURSIVE StringAt(_, _)
StringAt(q, len) ==
  IF q < Pow(NumSymbols, len)
    THEN StringOf(len, q)
    ELSE StringAt(q - Pow(NumSymbols, len), len + 1)

\* the n-th argument triple: strings by length, then the two markers
InputAt(n) ==
  [string |-> StringAt(n \div (NumSymbols * NumSymbols), 0),
   c1     |-> AlphabetSeq[(n % NumSymbols) + 1],
   c2     |-> AlphabetSeq[((n \div NumSymbols) % NumSymbols) + 1]]

LastInput == NumInputs(MaxLenSweep) - 1

InitSweep ==
  /\ Frame(InputAt(0).string, InputAt(0).c1, InputAt(0).c2)
  /\ memo = NoMemo
  /\ sweep = 0
  /\ differs = FALSE

\* the caller invokes the function on the next argument triple
CallNext ==
  /\ pc = "done"
  /\ sweep < LastInput
  /\ sweep' = sweep + 1
  /\ string' = InputAt(sweep').string
  /\ c1' = InputAt(sweep').c1
  /\ c2' = InputAt(sweep').c2
  /\ longest' = <<>>
  /\ i' = Unbound /\ j' = Unbound
  /\ iIt' = OuterRange(string').lo /\ jIt' = Unbound
  /\ pc' = "outer"
  /\ result' = NoResult
  /\ examined' = <<>>
  /\ UNCHANGED <<memo, differs>>

NextSweep == CallNext \/ OuterNext \/ InnerNext \/ Examine \/ Return

SpecSweep == InitSweep /\ [][NextSweep]_vars

NextPure == CallPure \/ OuterNext \/ InnerNext \/ Examine \/ Return \/ Remember

SpecPure == InitPure /\ [][NextPure]_vars

(* ------------------------------------------- the scan as a pure function *)
RECURSIVE InnerLoop(_, _, _, _, _, _)
InnerLoop(best, S, m1, m2, a, b) ==
  IF b < InnerRange(S, a).hi
    THEN InnerLoop(Body(best, S, m1, m2, a, b), S, m1, m2, a, b + 1)
    ELSE best

RECURSIVE OuterLoop(_, _, _, _, _)
OuterLoop(best, S, m1, m2, a) ==
  IF a < OuterRange(S).hi
    THEN OuterLoop(InnerLoop(best, S, m1, m2, a, InnerRange(S, a).lo),
                   S, m1, m2, a + 1)
    ELSE best

Scan(S, m1, m2) == OuterLoop(<<>>, S, m1, m2, OuterRange(S).lo)

(* ------------------------------------------------ vocabulary of the claims *)
Indices(S) == 0 .. (Len(S) - 1)

\* a candidate span [a, b] of S: a < b, S[a] = m1, S[b] = m2
ValidSpan(S, m1, m2, a, b) ==
  /\ a \in Indices(S) /\ b \in Indices(S)
  /\ a < b
  /\ S[a + 1] = m1
  /\ S[b + 1] = m2

ValidSpans(S, m1, m2) ==
  {p \in Indices(S) \X Indices(S) : ValidSpan(S, m1, m2, p[1], p[2])}

\* the symbols of S at indices a..b inclusive
Span(S, a, b) == [k \in 1 .. (b - a + 1) |-> S[a + k]]

SpanLen(p) == p[2] - p[1] + 1

\* p comes before q in row-major order
RowMajorLE(p, q) == p[1] < q[1] \/ (p[1] = q[1] /\ p[2] <= q[2])

RECURSIVE PairsFrom(_, _, _)
PairsFrom(a, b, n) ==
  IF a >= n THEN <<>>
  ELSE IF b >= n THEN PairsFrom(a + 1, a + 2, n)
  ELSE <<<<a, b>>>> \o PairsFrom(a, b + 1, n)

\* all pairs 0 <= a < b < n, a ascending and b ascending within a
RowMajorPairs(n) == PairsFrom(0, 1, n)

IsPrefix(s, t) == Len(s) <= Len(t) /\ s = SubSeq(t, 1, Len(s))

Occurrences(S, m) == {k \in Indices(S) : S[k + 1] = m}

SetMin(X) == CHOOSE x \in X : \A y \in X : x <= y
SetMax(X) == CHOOSE x \in X : \A y \in X : x >= y

ExaminedSet == {examined[k] : k \in 1 .. Len(examined)}

Done == pc = "done"

(* ================================================================ claims *)

\* C1: a non-empty result is the slice S[a..b] of some pair a < b < len(S)
\* with S[a] = c1 and S[b] = c2; its first symbol is c1 and its last is c2.
C1_ResultIsValidSpan ==
  (Done /\ result # <<>>) =>
    /\ \E p \in ValidSpans(string, c1, c2) : result = Span(string, p[1], p[2])
    /\ result[1] = c1
    /\ result[Len(result)] = c2

\* a returned span that is a proper part of the string, cut at both ends
C1_Witness ==
  /\ Done
  /\ result # <<>>
  /\ Len(result) + 2 = Len(string)
  /\ string[1] # c1
  /\ string[Len(string)] # c2

\* C2: no valid span of S is longer than the result.
C2_Maximal ==
  Done => \A p \in ValidSpans(string, c1, c2) : Len(result) >= SpanLen(p)

\* several valid spans of different lengths, the result as long as the longest
C2_Witness ==
  /\ Done
  /\ \E p \in ValidSpans(string, c1, c2), q \in ValidSpans(string, c1, c2) :
       SpanLen(p) < SpanLen(q) /\ Len(result) = SpanLen(q)

\* C3: the result is empty exactly when no valid span exists.
C3_EmptyIffNoSpan ==
  Done => ((result = <<>>) <=> (ValidSpans(string, c1, c2) = {}))

\* both markers occur, but never a start marker before an end marker, or the
\* two markers are the same symbol and it occurs once
C3_Witness ==
  /\ Done
  /\ result = <<>>
  /\ Occurrences(string, c1) # {}
  /\ Occurrences(string, c2) # {}
  /\ \/ c1 # c2
     \/ Cardinality(Occurrences(string, c1)) = 1

\* C5: the scan never raises: every pair it reads satisfies
\* 0 <= i < j < len(S), and no match is reported as the empty result.
C5_NeverFails ==
  /\ pc # "error"
  /\ (pc = "test") => (0 <= i /\ i < j /\ j < Len(string))
  /\ (pc = "test") => ~BodyRaises(string, c1, i, j)
  /\ (Done /\ ValidSpans(string, c1, c2) = {}) => result = <<>>

\* a finished scan, with reads, of a string in which a marker never occurs
C5_Witness ==
  /\ Done
  /\ result = <<>>
  /\ Len(string) >= 3
  /\ Occurrences(string, c1) = {}
  /\ Len(examined) >= 3

\* C6: an invocation on arguments seen before returns the result returned
\* then, whatever was invoked in between; an invocation leaves its arguments
\* unchanged and starts from an empty accumulator.
SameArguments == <<string, c1, c2>> = <<memo.string, memo.c1, memo.c2>>

C6_Pure ==
  /\ []((Done /\ memo.set /\ SameArguments) => result = memo.result)
  /\ [][(~Done) => UNCHANGED <<string, c1, c2>>]_vars
  /\ [][(Done /\ pc' # "done") => longest' = <<>>]_vars

\* the same arguments again, after an invocation on other arguments, with a
\* non-empty result
C6_Witness ==
  /\ Done
  /\ memo.set
  /\ memo.others
  /\ SameArguments
  /\ result # <<>>

\* C7: the scan of a string of length N terminates, and has then examined
\* exactly the pairs 0 <= i < j < N once each in row-major order:
\* N*(N-1)/2 pairs.
C7_ScanOrder ==
  /\ [](IsPrefix(examined, RowMajorPairs(Len(string))))
  /\ [](Done => examined = RowMajorPairs(Len(string)))
  /\ [](Done => 2 * Len(examined) = Len(string) * (Len(string) - 1))
  /\ ((~Done) ~> Done)

\* a finished scan of a three-symbol string: (0,1), (0,2), (1,2)
C7_Witness ==
  /\ Done
  /\ Len(string) = 3
  /\ examined = <<<<0, 1>>, <<0, 2>>, <<1, 2>>>>

\* C8: longest is empty or the slice of an examined valid pair, at least as
\* long as every valid pair examined so far; it changes only at a valid pair
\* whose span is strictly longer, so its length never decreases.
C8_InvState ==
  /\ \/ longest = <<>>
     \/ \E p \in ExaminedSet :
          /\ ValidSpan(string, c1, c2, p[1], p[2])
          /\ longest = Span(string, p[1], p[2])
  /\ \A p \in ExaminedSet :
       ValidSpan(string, c1, c2, p[1], p[2]) => Len(longest) >= SpanLen(p)

C8_Accumulator ==
  /\ [](C8_InvState)
  /\ [][((~Done) /\ longest' # longest) =>
          /\ pc = "test"
          /\ ValidSpan(string, c1, c2, i, j)
          /\ longest' = Span(string, i, j)
          /\ Len(longest') > Len(longest)]_vars
  /\ [][(~Done) => Len(longest') >= Len(longest)]_vars

\* longest was replaced by a longer span, and the last pair examined is a
\* valid but shorter span that did not replace it
C8_Witness ==
  /\ pc = "inner"
  /\ Len(examined) >= 1
  /\ LET last == examined[Len(examined)]
     IN  /\ ValidSpan(string, c1, c2, last[1], last[2])
         /\ SpanLen(last) < Len(longest)
  /\ \E p \in ExaminedSet :
       /\ ValidSpan(string, c1, c2, p[1], p[2])
       /\ p[1] = SetMin(Occurrences(string, c1))
       /\ SpanLen(p) < Len(longest)

\* C9: with f the first index of c1 and l the last index of c2, the result is
\* S[f..l] when both exist and f < l, and empty otherwise.
ClosedForm(S, m1, m2) ==
  IF Occurrences(S, m1) # {} /\ Occurrences(S, m2) # {}
       /\ SetMin(Occurrences(S, m1)) < SetMax(Occurrences(S, m2))
    THEN Span(S, SetMin(Occurrences(S, m1)), SetMax(Occurrences(S, m2)))
    ELSE <<>>

C9_ClosedForm == Done => result = ClosedForm(string, c1, c2)

\* several start markers and several end markers, the result running from
\* the first start marker to the last end marker
C9_Witness ==
  /\ Done
  /\ result # <<>>
  /\ Cardinality(Occurrences(string, c1)) >= 2
  /\ Cardinality(Occurrences(string, c2)) >= 2
  /\ result = Span(string, SetMin(Occurrences(string, c1)),
                   SetMax(Occurrences(string, c2)))

\* C10 (as stated): the one-pass alternative differs from the nested scan on
\* some input: once the scan has been run on every argument triple up to the
\* bound, at least one of its results differed from the one-pass result.
SweepDone == Done /\ sweep = LastInput

C10_OnePassDiffers == SweepDone => differs

\* C10 (amended): the one-pass alternative returns what the nested scan
\* returns, on every input.
C10_OnePassEquivalent ==
  Done => (result = OnePass(string, c1, c2) /\ result = Scan(string, c1, c2))

\* a start marker occurs after the first one and before a later end marker
C10_Witness ==
  /\ Done
  /\ result # <<>>
  /\ \E k \in Occurrences(string, c1), l \in Occurrences(string, c2) :
       SetMin(Occurrences(string, c1)) < k /\ k < l

\* C4: among the valid spans of maximum length the result is the first in
\* row-major order.
MaxSpans(S, m1, m2) ==
  {p \in ValidSpans(S, m1, m2) :
     \A q \in ValidSpans(S, m1, m2) : SpanLen(q) <= SpanLen(p)}

C4_FirstOfTies ==
  (Done /\ result # <<>>) =>
    \E p \in MaxSpans(string, c1, c2) :
      /\ \A q \in MaxSpans(string, c1, c2) : RowMajorLE(p, q)
      /\ result = Span(string, p[1], p[2])

\* the case C4 is about: two different valid spans of maximum length, or a
\* valid pair under examination whose span is as long as longest
C4_TieArises ==
  \/ Cardinality(MaxSpans(string, c1, c2)) >= 2
  \/ /\ pc = "test"
     /\ ValidSpan(string, c1, c2, i, j)
     /\ SpanLen(<<i, j>>) = Len(longest)

C4_NoTieEver == ~C4_TieArises

====
